---- MODULE Spec2Model ----
(***************************************************************************)
(* DrankSpel: the pyramid drinking game of src/src/domein.py, with the     *)
(* JSON persistence of src/src/persistentie.py.                            *)
(*                                                                         *)
(* Representation.  A Python list is a sequence; Python index i (0-based)  *)
(* is position i + 1.  An Optional[T] is a sequence of length at most one: *)
(* None is << >> and a value x is << x >>.  A Player argument of play_turn *)
(* is the position of that Player object in game.players.  A raised        *)
(* exception is the exception's class name in the "error" field of the     *)
(* call's result, "" when the call returned.                               *)
(***************************************************************************)
EXTENDS Integers, Sequences, FiniteSets, TLC

VARIABLES
    game,    \* the Game object, None before one is constructed
    drawn,   \* the cards Pyramid.next_card has handed out, in order
    ret,     \* the last call: its name, the exception it raised, its value
    file,    \* the JSON document save_game wrote, None before
    loaded,  \* the Game load_game returned, None before
    cli      \* run() of cui/cli.py: its position and its locals

vars == <<game, drawn, ret, file, loaded, cli>>

\* ------------------------------------------------------------------ bounds

\* player_names has 0 .. MaxNames entries
MaxNames == 13
\* the games that are played on have MinNames .. MaxNames names
MinNames == 10
\* random.shuffle produces one of NumShuffles orders
NumShuffles == 2
\* claimer and target are among the first MaxActors players
MaxActors == 2
\* claims and direct reveals are issued while the drinks taken and indices
\* revealed, summed over the players, are below MaxWork
MaxWork == 2
\* Deck.deal is called directly with n in 0 .. MaxDeal
MaxDeal == 1

\* --------------------------------------------------------------- optionals

None == << >>

Some(x) == << x >>

IsNone(o) == o = << >>

Get(o) == o[1]

Min(a, b) == IF a < b THEN a ELSE b

\* -------------------------------------------------------------- Card, Deck

Card(rank, suit) == [rank |-> rank, suit |-> suit]

ranks == <<"A", "2", "3", "4", "5", "6", "7", "8", "9", "10", "J", "Q", "K">>

suits == <<"hearts", "diamonds", "clubs", "spades">>

\* [Card(rank, suit) for suit in suits for rank in ranks]
Deck_cards ==
    [i \in 1..(Len(suits) * Len(ranks)) |->
        Card(ranks[((i - 1) % Len(ranks)) + 1], suits[((i - 1) \div Len(ranks)) + 1])]

\* Deck.__init__: the cards, or ValueError when they are not 52
Deck_init ==
    IF Len(Deck_cards) # 52
    THEN [error |-> "ValueError", cards |-> << >>]
    ELSE [error |-> "", cards |-> Deck_cards]

\* cards[a:b] of Python, 0 <= a, 0 <= b: clipped to the list
Slice(s, a, b) == SubSeq(s, a + 1, Min(b, Len(s)))

\* the k-th order random.shuffle may leave the deck in: the deck cut at
\* 13 * k and dealt out with stride 2 * k + 1 (a permutation while the
\* stride is coprime to the deck size)
Stride(k) == 2 * k + 1

shuffle(cards, k) ==
    [i \in 1..Len(cards) |-> cards[(((i - 1) * Stride(k) + 13 * k) % Len(cards)) + 1]]

\* the first n cards returned and left on the deck
deal_not_removed(cards, n) ==
    IF n > Len(cards)
    THEN [error |-> "ValueError", dealt |-> << >>, cards |-> cards]
    ELSE [error |-> "", dealt |-> Slice(cards, 0, n), cards |-> cards]

\* Deck.deal(n) on a deck holding cards
deal(cards, n) ==
    IF n > Len(cards)
    THEN [error |-> "ValueError", dealt |-> << >>, cards |-> cards]
    ELSE [error |-> "", dealt |-> Slice(cards, 0, n), cards |-> Slice(cards, n, Len(cards))]

\* ------------------------------------------------------------------ Player

Player(name) ==
    [name |-> name, hand |-> << >>, revealed_indices |-> {}, drinks_taken |-> 0]

receive(player, cards) == [player EXCEPT !.hand = @ \o cards]

\* hand[index] of Python: negative indices count from the end
ListIndexOk(s, index) == -Len(s) <= index /\ index < Len(s)

ListGet(s, index) == IF index < 0 THEN s[Len(s) + index + 1] ELSE s[index + 1]

\* the card taken out of the hand as it is shown
reveal_marked_taken(marked, index) ==
    IF ListIndexOk(marked.hand, index)
    THEN [error |-> "",
          player |-> [marked EXCEPT !.hand =
                        [i \in 1..(Len(@) - 1) |->
                            IF i < ((index + Len(@)) % Len(@)) + 1 THEN @[i] ELSE @[i + 1]]],
          card |-> Some(ListGet(marked.hand, index))]
    ELSE [error |-> "IndexError", player |-> marked, card |-> None]

\* Player.reveal(index), lines 86-87, for the player with the index added
reveal_marked(marked, index) ==
    IF ListIndexOk(marked.hand, index)
    THEN [error |-> "", player |-> marked, card |-> Some(ListGet(marked.hand, index))]
    ELSE [error |-> "IndexError", player |-> marked, card |-> None]

\* Player.reveal(index): the index is added first, then the hand is indexed
reveal(player, index) ==
    reveal_marked([player EXCEPT !.revealed_indices = @ \cup {index}], index)

\* the amount taken off the count
drink_down(player, amount) == [player EXCEPT !.drinks_taken = @ - amount]

drink(player, amount) == [player EXCEPT !.drinks_taken = @ + amount]

\* ----------------------------------------------------------------- Pyramid

\* the rows built down to size 2, the top row of one card left out
RECURSIVE Pyramid_rows_no_top(_, _, _)
Pyramid_rows_no_top(cards, idx, size) ==
    IF size <= 1 THEN << >>
    ELSE <<Slice(cards, idx, idx + size)>> \o Pyramid_rows_no_top(cards, idx + size, size - 1)

\* the rows built by Pyramid.__init__ for sizes rows, rows - 1, ..., 1
RECURSIVE Pyramid_rows(_, _, _)
Pyramid_rows(cards, idx, size) ==
    IF size <= 0 THEN << >>
    ELSE <<Slice(cards, idx, idx + size)>> \o Pyramid_rows(cards, idx + size, size - 1)

Pyramid(cards, rows) == [rows |-> Pyramid_rows(cards, 0, rows), row |-> 0, col |-> 0]

\* the row left one cell early: > for >= with the column not yet advanced
next_card_early_wrap(p) ==
    IF p.row >= Len(p.rows)
    THEN [pyramid |-> p, card |-> None]
    ELSE LET card == p.rows[p.row + 1][p.col + 1]
             col  == p.col + 1
         IN  IF col >= Len(p.rows[p.row + 1]) - 1
             THEN [pyramid |-> [p EXCEPT !.row = @ + 1, !.col = 0], card |-> Some(card)]
             ELSE [pyramid |-> [p EXCEPT !.col = col], card |-> Some(card)]

\* the rows read from their right end
next_card_right_to_left(p) ==
    IF p.row >= Len(p.rows)
    THEN [pyramid |-> p, card |-> None]
    ELSE LET card == p.rows[p.row + 1][Len(p.rows[p.row + 1]) - p.col]
             col  == p.col + 1
         IN  IF col >= Len(p.rows[p.row + 1])
             THEN [pyramid |-> [p EXCEPT !.row = @ + 1, !.col = 0], card |-> Some(card)]
             ELSE [pyramid |-> [p EXCEPT !.col = col], card |-> Some(card)]

\* the cursor put back on the first cell once the last row is passed
next_card_restart(p) ==
    IF p.row >= Len(p.rows)
    THEN [pyramid |-> [p EXCEPT !.row = 0, !.col = 0], card |-> None]
    ELSE LET card == p.rows[p.row + 1][p.col + 1]
             col  == p.col + 1
         IN  IF col >= Len(p.rows[p.row + 1])
             THEN [pyramid |-> [p EXCEPT !.row = @ + 1, !.col = 0], card |-> Some(card)]
             ELSE [pyramid |-> [p EXCEPT !.col = col], card |-> Some(card)]

\* Pyramid.next_card
next_card(p) ==
    IF p.row >= Len(p.rows)
    THEN [pyramid |-> p, card |-> None]
    ELSE LET card == p.rows[p.row + 1][p.col + 1]
             col  == p.col + 1
         IN  IF col >= Len(p.rows[p.row + 1])
             THEN [pyramid |-> [p EXCEPT !.row = @ + 1, !.col = 0], card |-> Some(card)]
             ELSE [pyramid |-> [p EXCEPT !.col = col], card |-> Some(card)]

\* -------------------------------------------------------------------- Game

\* math.isqrt
isqrt(n) == CHOOSE r \in 0..n : r * r <= n /\ (r + 1) * (r + 1) > n

\* the closed form with the + 1 under the root left out
max_pyramid_rows_no_plus_one(remaining) == (isqrt(8 * remaining) - 1) \div 2

\* Game._max_pyramid_rows
max_pyramid_rows(remaining) == (isqrt(8 * remaining + 1) - 1) \div 2

\* for player in self.players: player.receive(self.deck.deal(4)), from the
\* i-th player on; stops at the first deal that raises
RECURSIVE DealHands(_, _, _)
DealHand(players, d, i) ==
    IF d.error # ""
    THEN [error |-> d.error, players |-> players, cards |-> d.cards]
    ELSE DealHands([players EXCEPT ![i] = receive(@, d.dealt)], d.cards, i + 1)

DealHands(players, cards, i) ==
    IF i > Len(players) THEN [error |-> "", players |-> players, cards |-> cards]
    ELSE DealHand(players, deal(cards, 4), i)

Failed(error, message) == [error |-> error, message |-> message, game |-> None]

\* Game.__init__, line 149: the leftover cards become the rest stack
Game_rest(players, pyramid, rest) ==
    [error |-> "", message |-> "",
     game |-> Some([players     |-> players,
                    deck        |-> rest.cards,
                    pyramid     |-> pyramid,
                    rest_stapel |-> rest.dealt])]

\* Game.__init__, line 146: the pyramid of the cards dealt for it
Game_pyramid(players, rows, pyr) ==
    IF pyr.error # "" THEN Failed(pyr.error, "Not enough cards to deal")
    ELSE Game_rest(players, Pyramid(pyr.dealt, rows), deal(pyr.cards, Len(pyr.cards)))

\* Game.__init__, line 145: the cards of a pyramid of that many rows are dealt
Game_rows(players, cards, rows) ==
    Game_pyramid(players, rows, deal(cards, (rows * (rows + 1)) \div 2))

\* Game.__init__, lines 143-144, with the hands dealt
Game_hands(hands) ==
    IF hands.error # "" THEN Failed(hands.error, "Not enough cards to deal")
    ELSE Game_rows(hands.players, hands.cards, max_pyramid_rows(Len(hands.cards)))

\* Game.__init__, lines 134-140, with the new deck
Game_deck(player_names, new, k) ==
    IF new.error # "" THEN Failed(new.error, "Deck must contain 52 cards")
    ELSE Game_hands(DealHands([i \in 1..Len(player_names) |-> Player(player_names[i])],
                              shuffle(new.cards, k), 1))

\* the player count checked against 13, the most that 52 cards can serve
Game_init_upto_13(player_names, k) ==
    IF ~(2 <= Len(player_names) /\ Len(player_names) <= 13)
    THEN Failed("ValueError", "minstens 2, max 12 spelers voor 4 kaarten pp")
    ELSE Game_deck(player_names, Deck_init, k)

\* Game.__init__(player_names), random.shuffle leaving the k-th order
Game_init(player_names, k) ==
    IF ~(2 <= Len(player_names) /\ Len(player_names) <= 12)
    THEN Failed("ValueError", "minstens 2, max 12 spelers voor 4 kaarten pp")
    ELSE Game_deck(player_names, Deck_init, k)

\* the card of a pyramid whose advanced cursor is dropped
revealed_card_cursor_kept(g, n) == [game |-> g, card |-> n.card]

\* Game.reveal_next_card, with what Pyramid.next_card returned
revealed_card(g, n) == [game |-> [g EXCEPT !.pyramid = n.pyramid], card |-> n.card]

reveal_next_card(g) == revealed_card(g, next_card(g.pyramid))

\* f"{name} drinkt {amount}"
Outcome(name, amount) == <<name, " drinkt ", amount>>

\* the cards compared whole, suit included
challenge_whole_card(g, card, claimer, target, shown) ==
    IF shown.error # ""
    THEN [error |-> shown.error,
          game |-> [g EXCEPT !.players[claimer] = shown.player], outcome |-> None]
    ELSE IF Get(shown.card) = card
    THEN [error |-> "",
          game |-> [[g EXCEPT !.players[claimer] = shown.player]
                        EXCEPT !.players[target] = drink(@, 2)],
          outcome |-> Some(Outcome(g.players[target].name, 2))]
    ELSE [error |-> "",
          game |-> [g EXCEPT !.players[claimer] = drink(shown.player, 2)],
          outcome |-> Some(Outcome(g.players[claimer].name, 2))]

\* Game.play_turn, lines 190-195: the card the claimer showed against the
\* pyramid card
challenge(g, card, claimer, target, shown) ==
    IF shown.error # ""
    THEN [error |-> shown.error,
          game |-> [g EXCEPT !.players[claimer] = shown.player], outcome |-> None]
    ELSE IF Get(shown.card).rank = card.rank
    THEN [error |-> "",
          game |-> [[g EXCEPT !.players[claimer] = shown.player]
                        EXCEPT !.players[target] = drink(@, 2)],
          outcome |-> Some(Outcome(g.players[target].name, 2))]
    ELSE [error |-> "",
          game |-> [g EXCEPT !.players[claimer] = drink(shown.player, 2)],
          outcome |-> Some(Outcome(g.players[claimer].name, 2))]

\* a believed claim charged to the claimer
resolve_claim_claimer_drinks(g, card, claimer, target, chosen_index, target_believes) ==
    IF target_believes
    THEN [error |-> "",
          game |-> [g EXCEPT !.players[claimer] = drink(@, 1)],
          outcome |-> Some(Outcome(g.players[target].name, 1))]
    ELSE challenge(g, card, claimer, target, reveal(g.players[claimer], chosen_index))

\* Game.play_turn, lines 185-195: the claim against pyramid card card
resolve_claim(g, card, claimer, target, chosen_index, target_believes) ==
    IF target_believes
    THEN [error |-> "",
          game |-> [g EXCEPT !.players[target] = drink(@, 1)],
          outcome |-> Some(Outcome(g.players[target].name, 1))]
    ELSE challenge(g, card, claimer, target, reveal(g.players[claimer], chosen_index))

\* Game.play_turn, line 196: the returned pair, unless the claim raised
turn_result(card, c) ==
    [error |-> c.error, game |-> c.game, card |-> Some(card),
     value |-> IF c.error # "" THEN None ELSE <<card, c.outcome>>]

\* the pass looked at before the exhausted pyramid
turn_revealed_pass_first(r, claimer, target, chosen_index, target_believes) ==
    IF IsNone(claimer) \/ IsNone(target) \/ IsNone(chosen_index)
    THEN [error |-> "", game |-> r.game, card |-> r.card, value |-> <<r.card, None>>]
    ELSE IF IsNone(r.card)
    THEN [error |-> "RuntimeError", game |-> r.game, card |-> r.card, value |-> None]
    ELSE turn_result(Get(r.card),
                     resolve_claim(r.game, Get(r.card), Get(claimer), Get(target),
                                   Get(chosen_index), target_believes))

\* Game.play_turn, lines 178-196, r what reveal_next_card returned
turn_revealed(r, claimer, target, chosen_index, target_believes) ==
    IF IsNone(r.card)
    THEN [error |-> "RuntimeError", game |-> r.game, card |-> r.card, value |-> None]
    ELSE IF IsNone(claimer) \/ IsNone(target) \/ IsNone(chosen_index)
    THEN [error |-> "", game |-> r.game, card |-> r.card, value |-> <<Get(r.card), None>>]
    ELSE turn_result(Get(r.card),
                     resolve_claim(r.game, Get(r.card), Get(claimer), Get(target),
                                   Get(chosen_index), target_believes))

\* Game.play_turn; value is the returned pair (card, outcome), card what
\* reveal_next_card handed out
play_turn(g, claimer, target, chosen_index, target_believes) ==
    turn_revealed(reveal_next_card(g), claimer, target, chosen_index, target_believes)

\* ------------------------------------------------------------- persistence

_card_to_tuple(card) == <<card.rank, card.suit>>

_card_from_tuple(data) == Card(data[1], data[2])

\* list(a_set): the elements in some order
RECURSIVE SetToList(_)
SetToList(S) ==
    IF S = {} THEN << >>
    ELSE LET x == CHOOSE y \in S : TRUE IN <<x>> \o SetToList(S \ {x})

ListToSet(s) == {s[i] : i \in 1..Len(s)}

\* [f(c) for c in cards]
CardsToTuples(cards) == [i \in 1..Len(cards) |-> _card_to_tuple(cards[i])]

CardsFromTuples(data) == [i \in 1..Len(data) |-> _card_from_tuple(data[i])]

\* [t for row in rows_data for t in row]
RECURSIVE Flatten(_)
Flatten(rows) == IF rows = << >> THEN << >> ELSE Head(rows) \o Flatten(Tail(rows))

\* the JSON document save_game writes for game g
save_game(g) ==
    [players |->
        [i \in 1..Len(g.players) |->
            [name         |-> g.players[i].name,
             hand         |-> CardsToTuples(g.players[i].hand),
             revealed     |-> SetToList(g.players[i].revealed_indices),
             drinks_taken |-> g.players[i].drinks_taken]],
     pyramid |->
        [rows |-> [r \in 1..Len(g.pyramid.rows) |-> CardsToTuples(g.pyramid.rows[r])],
         pos  |-> [row |-> g.pyramid.row, col |-> g.pyramid.col]],
     rest_stapel |-> CardsToTuples(g.rest_stapel)]

\* load_game, lines 47-50: the fresh players overwritten, pairwise (zip)
load_players(players, p_data) ==
    [i \in 1..Len(players) |->
        IF i <= Len(p_data)
        THEN [players[i] EXCEPT
                !.hand             = CardsFromTuples(p_data[i].hand),
                !.revealed_indices = ListToSet(p_data[i].revealed),
                !.drinks_taken     = p_data[i].drinks_taken]
        ELSE players[i]]

\* the pyramid rebuilt with the saved position left out
load_pyramid_from_start(rows_data, pos) ==
    [Pyramid(CardsFromTuples(Flatten(rows_data)), Len(rows_data)) EXCEPT
        !.rows = [r \in 1..Len(rows_data) |-> CardsFromTuples(rows_data[r])]]

\* load_game, lines 52-58: the pyramid rebuilt, then overwritten
load_pyramid(rows_data, pos) ==
    [Pyramid(CardsFromTuples(Flatten(rows_data)), Len(rows_data)) EXCEPT
        !.rows = [r \in 1..Len(rows_data) |-> CardsFromTuples(rows_data[r])],
        !.row  = pos.row,
        !.col  = pos.col]

\* load_game, lines 47-61, fresh what Game(names) returned or raised
load_into(fresh, data) ==
    IF fresh.error # "" THEN [error |-> fresh.error, game |-> None]
    ELSE [error |-> "",
          game  |-> Some([Get(fresh.game) EXCEPT
                            !.players     = load_players(@, data.players),
                            !.pyramid     = load_pyramid(data.pyramid.rows, data.pyramid.pos),
                            !.rest_stapel = CardsFromTuples(data.rest_stapel)])]

\* load_game on the document data, the setup's random.shuffle leaving the
\* k-th order
load_game(data, k) ==
    load_into(Game_init([i \in 1..Len(data.players) |-> data.players[i].name], k), data)

\* --------------------------------------------------------------------- cli

\* _get_player(game, name): the first player of that name, None without one
_get_player(g, name) ==
    LET found == {i \in 1..Len(g.players) : g.players[i].name = name}
    IN  IF found = {} THEN None ELSE Some(CHOOSE i \in found : \A j \in found : i <= j)

\* str.strip() on the texts a user types here: the others have no blanks
Stripped == (" " :> "") @@ ("n " :> "n") @@ (" 0" :> "0")

strip(text) == IF text \in DOMAIN Stripped THEN Stripped[text] ELSE text

\* str.lower() on the answers to the last prompt
Lowered == ("J" :> "j") @@ ("N" :> "n")

lower(text) == IF text \in DOMAIN Lowered THEN Lowered[text] ELSE text

\* int(text): the decimal literals typed here, ValueError for any other text
IntLiterals == ("-5" :> -5) @@ ("-1" :> -1) @@ ("0" :> 0) @@ ("3" :> 3) @@ ("4" :> 4)

int(text) ==
    IF strip(text) \in DOMAIN IntLiterals
    THEN [error |-> "", value |-> IntLiterals[strip(text)]]
    ELSE [error |-> "ValueError", value |-> 0]

\* run(), lines 47-54, with claimer and target found: the arguments of the
\* play_turn call, None when the loop continues without one
asked_index(claimer, target, index, believes_text) ==
    IF index.error # "" THEN None
    ELSE Some(<<claimer, target, index.value, lower(strip(believes_text)) # "n">>)

\* run(), lines 41-54, with the claimer found
asked_target(claimer, target, index_text, believes_text) ==
    IF IsNone(target) \/ target = claimer THEN None
    ELSE asked_index(Get(claimer), Get(target), int(index_text), believes_text)

\* run(), lines 33-54, on the four texts the user types
asked(g, claimer_name, target_name, index_text, believes_text) ==
    IF strip(claimer_name) = "" THEN None
    ELSE IF IsNone(_get_player(g, strip(claimer_name))) THEN None
    ELSE asked_target(_get_player(g, strip(claimer_name)),
                      _get_player(g, strip(target_name)), index_text, believes_text)

\* ------------------------------------------------------------------ inputs

NamePool == <<"An", "Bo", "Cas", "Dre", "Els", "Fien", "Gus", "Hanne", "Ine", "Jef",
              "Kaat", "Lore", "Mats">>

\* the list of n names a caller passes; names repeat past the pool, as the
\* constructor does not require them to differ
Names(n) == [i \in 1..n |-> NamePool[((i - 1) % Len(NamePool)) + 1]]

NameCounts == 0..MaxNames

PlayedCounts == MinNames..MaxNames

Shuffles == 0..(NumShuffles - 1)

\* the Player objects a caller passes as claimer or target
Actors(g) == 1..Min(Len(g.players), MaxActors)

\* chosen_index values: both ends of the hand, one wrapped negative index, and
\* one index past each end
Indices == {-5, -1, 0, 3, 4}

\* the (claimer, target, chosen_index) of a turn with a claim
ClaimArgs(g) ==
    {<<Some(c), Some(t), Some(i)>> : c \in Actors(g), t \in Actors(g), i \in Indices}

\* the (claimer, target, chosen_index) of a turn without one: all absent, or
\* one of the three absent
PassArgs ==
    {<<None, None, None>>, <<None, Some(2), Some(0)>>, <<Some(1), None, Some(0)>>,
     <<Some(1), Some(2), None>>}

\* the texts typed at the two name prompts: a blank, a stranger, and the
\* names of the first players
NameTexts(g) == {" ", "Zed"} \cup {g.players[i].name : i \in Actors(g)}

\* the texts typed at the index prompt
IndexTexts == {"-1", " 0", "4", "x"}

\* the texts typed at the last prompt
BelievesTexts == {"j", "N", "n "}

\* the drinks taken and the indices revealed by the first i players
RECURSIVE WorkOf(_, _)
WorkOf(players, i) ==
    IF i = 0 THEN 0
    ELSE players[i].drinks_taken + Cardinality(players[i].revealed_indices)
         + WorkOf(players, i - 1)

Work(g) == WorkOf(g.players, Len(g.players))

\* claims and direct reveals are issued while this holds
Budget == Work(Get(game)) < MaxWork

\* ----------------------------------------------------------------- actions

Result(op, error, value) == [op |-> op, error |-> error, value |-> value]

\* run(): pc is "idle" before the Game is constructed (line 23), "loop" at
\* the top of the loop (line 27), "ask" at the first prompt (line 33), "done"
\* once run() returned and "raised" once an exception left it; card is the
\* local the loop printed, turn the arguments of the play_turn call this
\* iteration made
Cli(pc, card, turn) == [pc |-> pc, card |-> card, turn |-> turn]

Init ==
    /\ game = None
    /\ drawn = << >>
    /\ ret = Result("", "", None)
    /\ file = None
    /\ loaded = None
    /\ cli = Cli("idle", None, None)

Returned(op, r) ==
    /\ game' = r.game
    /\ ret' = Result(op, r.error, r.message)
    /\ UNCHANGED <<drawn, file, loaded, cli>>

\* game = Game(Names(n))
NewGame(n, k) ==
    /\ IsNone(game)
    /\ Returned("Game", Game_init(Names(n), k))

\* game.reveal_next_card()
Revealed(r) ==
    /\ game' = Some(r.game)
    /\ drawn' = drawn \o r.card
    /\ ret' = Result("reveal_next_card", "", r.card)
    /\ UNCHANGED <<file, loaded, cli>>

RevealNextCard ==
    /\ ~IsNone(game)
    /\ Revealed(reveal_next_card(Get(game)))

\* game.play_turn(claimer, target, chosen_index, target_believes)
Played(r) ==
    /\ game' = Some(r.game)
    /\ drawn' = drawn \o r.card
    /\ ret' = Result("play_turn", r.error, r.value)
    /\ UNCHANGED <<file, loaded, cli>>

PlayTurn(claimer, target, chosen_index, target_believes) ==
    /\ ~IsNone(game)
    /\ Played(play_turn(Get(game), claimer, target, chosen_index, target_believes))

\* game.players[p].reveal(index)
ShownCard(p, r) ==
    /\ game' = Some([Get(game) EXCEPT !.players[p] = r.player])
    /\ ret' = Result("reveal", r.error, r.card)
    /\ UNCHANGED <<drawn, file, loaded, cli>>

PlayerReveal(p, index) ==
    /\ ~IsNone(game)
    /\ ShownCard(p, reveal(Get(game).players[p], index))

\* game.deck.deal(n)
Dealt(r) ==
    /\ game' = Some([Get(game) EXCEPT !.deck = r.cards])
    /\ ret' = Result("deal", r.error, r.dealt)
    /\ UNCHANGED <<drawn, file, loaded, cli>>

DeckDeal(n) ==
    /\ ~IsNone(game)
    /\ Dealt(deal(Get(game).deck, n))

\* save_game(game, filename)
SaveGame ==
    /\ ~IsNone(game)
    /\ file' = Some(save_game(Get(game)))
    /\ ret' = Result("save_game", "", None)
    /\ UNCHANGED <<game, drawn, loaded, cli>>

\* loaded = load_game(filename)
Restored(r) ==
    /\ loaded' = r.game
    /\ ret' = Result("load_game", r.error, None)
    /\ UNCHANGED <<game, drawn, file, cli>>

LoadGame(k) ==
    /\ ~IsNone(file)
    /\ Restored(load_game(Get(file), k))

Construct == \E n \in PlayedCounts, k \in Shuffles : NewGame(n, k)

ConstructAny == \E n \in NameCounts, k \in Shuffles : NewGame(n, k)

Claim ==
    \E a \in ClaimArgs(Get(game)), target_believes \in BOOLEAN :
        PlayTurn(a[1], a[2], a[3], target_believes)

Pass ==
    \E a \in PassArgs, target_believes \in BOOLEAN :
        PlayTurn(a[1], a[2], a[3], target_believes)

DirectReveal == \E p \in Actors(Get(game)), index \in Indices : PlayerReveal(p, index)

DirectDeal == \E n \in 0..MaxDeal : DeckDeal(n)

Load == \E k \in Shuffles : LoadGame(k)

\* run(), lines 23-24: game = Game(player_names); an exception leaves run()
CliStarted(r) ==
    /\ game' = r.game
    /\ ret' = Result("Game", r.error, r.message)
    /\ cli' = Cli(IF r.error # "" THEN "raised" ELSE "loop", None, None)
    /\ UNCHANGED <<drawn, file, loaded>>

CliStart(n, k) ==
    /\ cli.pc = "idle"
    /\ IsNone(game)
    /\ CliStarted(Game_init(Names(n), k))

\* run(), lines 27-31: the next card is drawn and printed, or the loop ends
CliRevealed(r) ==
    /\ game' = Some(r.game)
    /\ drawn' = drawn \o r.card
    /\ ret' = Result("reveal_next_card", "", r.card)
    /\ cli' = Cli(IF IsNone(r.card) THEN "done" ELSE "ask", r.card, None)
    /\ UNCHANGED <<file, loaded>>

CliReveal ==
    /\ cli.pc = "loop"
    /\ CliRevealed(reveal_next_card(Get(game)))

\* run(), one of the continue statements of lines 35-51
CliContinue ==
    /\ cli' = [cli EXCEPT !.pc = "loop"]
    /\ UNCHANGED <<game, drawn, ret, file, loaded>>

\* run(), lines 54-56: game.play_turn(claimer, target, index, believes)
CliPlayed(turn, r) ==
    /\ game' = Some(r.game)
    /\ drawn' = drawn \o r.card
    /\ ret' = Result("play_turn", r.error, r.value)
    /\ cli' = Cli(IF r.error # "" THEN "raised" ELSE "loop", cli.card, Some(turn))
    /\ UNCHANGED <<file, loaded>>

CliCalled(turn) ==
    CliPlayed(turn, play_turn(Get(game), Some(turn[1]), Some(turn[2]), Some(turn[3]), turn[4]))

\* run(), lines 33-56, on the four texts the user types
CliTurn(claimer_name, target_name, index_text, believes_text) ==
    /\ cli.pc = "ask"
    /\ \/ /\ IsNone(asked(Get(game), claimer_name, target_name, index_text, believes_text))
          /\ CliContinue
       \/ /\ ~IsNone(asked(Get(game), claimer_name, target_name, index_text, believes_text))
          /\ CliCalled(Get(asked(Get(game), claimer_name, target_name, index_text,
                                 believes_text)))

CliBegin == \E n \in PlayedCounts, k \in Shuffles : CliStart(n, k)

CliAnswer ==
    \E claimer_name \in NameTexts(Get(game)), target_name \in NameTexts(Get(game)),
       index_text \in IndexTexts, believes_text \in BelievesTexts :
        CliTurn(claimer_name, target_name, index_text, believes_text)

\* a game is constructed and played turn by turn
Next ==
    \/ Construct
    \/ RevealNextCard
    \/ (~IsNone(game) /\ Pass)
    \/ (~IsNone(game) /\ Budget /\ Claim)

Spec == Init /\ [][Next]_vars

\* a game is constructed and played through play_turn alone
NextTurns ==
    \/ Construct
    \/ (~IsNone(game) /\ Pass)
    \/ (~IsNone(game) /\ Budget /\ Claim)

SpecTurns == Init /\ [][NextTurns]_vars

\* construction with every number of names, and the pyramid walked to its end
NextSetup ==
    \/ ConstructAny
    \/ RevealNextCard
    \/ (~IsNone(game) /\ Pass)

SpecSetup == Init /\ [][NextSetup]_vars

\* the deck and the players of a constructed game called directly
NextCalls ==
    \/ Construct
    \/ DirectDeal
    \/ (~IsNone(game) /\ Budget /\ DirectReveal)

SpecCalls == Init /\ [][NextCalls]_vars

\* a game is played, then saved, and the file is loaded
NextPersist ==
    \/ (IsNone(file) /\ Next)
    \/ (IsNone(file) /\ SaveGame)
    \/ (IsNone(loaded) /\ Load)

SpecPersist == Init /\ [][NextPersist]_vars

\* a session of run(): the game is constructed, then the loop draws a card
\* and asks for a claim until the pyramid gives none
NextCli ==
    \/ CliBegin
    \/ CliReveal
    \/ (cli.pc = "ask" /\ CliAnswer)

SpecCli == Init /\ [][NextCli]_vars

\* ------------------------------------------------------- derived quantities

\* the cells of a pyramid of R rows
Cells(R) == (R * (R + 1)) \div 2

\* the cells before the cursor, in row-major order from the bottom row
RECURSIVE CellsInRows(_, _)
CellsInRows(rows, r) == IF r = 0 THEN 0 ELSE Len(rows[r]) + CellsInRows(rows, r - 1)

CursorIndex(p) == CellsInRows(p.rows, Min(p.row, Len(p.rows))) + p.col

Exhausted(p) == p.row >= Len(p.rows)

\* ------------------------------------------------------------------ claims

\* C1: for every N in 2..12, Game(N names) yields N players with 4 cards
\* each, a pyramid whose row count R is the largest with R(R+1)/2 <= 52 - 4N,
\* and a rest stack of 52 - 4N - R(R+1)/2 cards.
SetupShape(g, n) ==
    LET R == Len(g.pyramid.rows)
    IN  /\ Len(g.players) = n
        /\ \A i \in 1..n : Len(g.players[i].hand) = 4
        /\ Cells(R) <= 52 - 4 * n
        /\ Cells(R + 1) > 52 - 4 * n
        /\ Len(g.rest_stapel) = 52 - 4 * n - Cells(R)

Thm_C1 ==
    [][\A n \in 2..12, k \in Shuffles :
          NewGame(n, k) => /\ ~IsNone(game')
                           /\ SetupShape(Get(game'), n)]_vars

\* C1's example: three names give 8 rows and 4 rest cards
Wit_C1 ==
    /\ ret.op = "Game"
    /\ ~IsNone(game)
    /\ Len(Get(game).players) = 3
    /\ Len(Get(game).pyramid.rows) = 8
    /\ Len(Get(game).rest_stapel) = 4

\* C2: from a fresh Game with R rows, reveal_next_card returns a card on
\* exactly the first R(R+1)/2 draws and none on every call after them, which
\* leaves the game as it is.
Thm_C2 ==
    /\ [](IsNone(game) \/ Len(drawn) <= Cells(Len(Get(game).pyramid.rows)))
    /\ [][RevealNextCard =>
            IF Len(drawn) < Cells(Len(Get(game).pyramid.rows))
            THEN /\ ~IsNone(ret'.value)
                 /\ Len(drawn') = Len(drawn) + 1
            ELSE /\ IsNone(ret'.value)
                 /\ drawn' = drawn
                 /\ game' = game]_vars

\* every card of an 8-row pyramid was drawn and the next call returned none
Wit_C2 ==
    /\ ret.op = "reveal_next_card"
    /\ IsNone(ret.value)
    /\ Len(drawn) = 36
    /\ Len(Get(game).pyramid.rows) = 8

\* C8: Game(names) raises the descriptive ValueError for every count of names
\* outside 2..12 and succeeds for every count inside; no deal of the setup
\* runs out of cards.
Thm_C8 ==
    [][\A n \in NameCounts, k \in Shuffles :
          NewGame(n, k) =>
            IF 2 <= n /\ n <= 12
            THEN /\ ret'.error = ""
                 /\ ~IsNone(game')
            ELSE /\ ret'.error = "ValueError"
                 /\ ret'.value = "minstens 2, max 12 spelers voor 4 kaarten pp"
                 /\ IsNone(game')]_vars

\* a construction with 13 names was refused
Wit_C8 ==
    /\ ret.op = "Game"
    /\ ret.error = "ValueError"
    /\ ret.value = "minstens 2, max 12 spelers voor 4 kaarten pp"
    /\ IsNone(game)

\* the pyramid card a call made now would draw
NextCell(p) == p.rows[p.row + 1][p.col + 1]

Players == IF IsNone(game) THEN {} ELSE 1..Len(Get(game).players)

\* the players a caller passes, in the current state
Callers == IF IsNone(game) THEN {} ELSE Actors(Get(game))


\* C3: for distinct claimer and target and any chosen index, a successful
\* play_turn with target_believes = True adds exactly 1 to the target's
\* drinks_taken, leaves the claimer's drinks_taken, hand and revealed set as
\* they were, and returns the outcome "<target> drinkt 1".
BelievedTurn(g, c, t, r) ==
    r.error = "" =>
        /\ r.game.players[t].drinks_taken = g.players[t].drinks_taken + 1
        /\ r.game.players[c].drinks_taken = g.players[c].drinks_taken
        /\ r.game.players[c].hand = g.players[c].hand
        /\ r.game.players[c].revealed_indices = g.players[c].revealed_indices
        /\ r.value[2] = Some(<<g.players[t].name, " drinkt ", 1>>)

Thm_C3 ==
    \A c \in Callers, t \in Callers, i \in Indices :
        c # t => BelievedTurn(Get(game), c, t,
                              play_turn(Get(game), Some(c), Some(t), Some(i), TRUE))

\* a believed claim was played and its target has one drink
Wit_C3 ==
    /\ ret.op = "play_turn"
    /\ ret.error = ""
    /\ \E t \in Players :
          /\ ret.value[2] = Some(<<Get(game).players[t].name, " drinkt ", 1>>)
          /\ Get(game).players[t].drinks_taken = 1

\* C4: for distinct claimer and target and a chosen index in 0..3, a
\* successful play_turn with target_believes = False compares the rank of the
\* claimer's card at that index with the rank of the pyramid card this call
\* drew: on equal ranks the target's drinks rise by 2 and the claimer's stay,
\* otherwise the claimer's rise by 2 and the target's stay; the index is in
\* the claimer's revealed set afterwards.
Charged(g, c, t, r, match) ==
    /\ r.game.players[t].drinks_taken = g.players[t].drinks_taken + (IF match THEN 2 ELSE 0)
    /\ r.game.players[c].drinks_taken = g.players[c].drinks_taken + (IF match THEN 0 ELSE 2)

ChallengedTurn(g, c, t, i, r) ==
    r.error = "" =>
        /\ r.value[1] = NextCell(g.pyramid)
        /\ i \in r.game.players[c].revealed_indices
        /\ Charged(g, c, t, r, g.players[c].hand[i + 1].rank = r.value[1].rank)

Thm_C4 ==
    \A c \in Callers, t \in Callers, i \in Indices \cap (0..3) :
        c # t => ChallengedTurn(Get(game), c, t, i,
                                play_turn(Get(game), Some(c), Some(t), Some(i), FALSE))

\* a challenge on a card of the pyramid card's rank and another suit was
\* played and its target has two drinks
Wit_C4 ==
    /\ ret.op = "play_turn"
    /\ ret.error = ""
    /\ \E c \in Players, t \in Players, i \in 0..3 :
          /\ c # t
          /\ i \in Get(game).players[c].revealed_indices
          /\ Get(game).players[c].hand[i + 1].rank = ret.value[1].rank
          /\ Get(game).players[c].hand[i + 1].suit # ret.value[1].suit
          /\ ret.value[2] = Some(<<Get(game).players[t].name, " drinkt ", 2>>)
          /\ Get(game).players[t].drinks_taken = 2
          /\ Get(game).players[c].drinks_taken = 0

\* the (claimer, target, chosen_index) a caller passes in the current state
TurnArgs == ClaimArgs(Get(game)) \cup PassArgs

IsPass(a) == IsNone(a[1]) \/ IsNone(a[2]) \/ IsNone(a[3])

SamePlayers(g, h) ==
    \A p \in 1..Len(g.players) :
        /\ h.players[p].drinks_taken = g.players[p].drinks_taken
        /\ h.players[p].hand = g.players[p].hand
        /\ h.players[p].revealed_indices = g.players[p].revealed_indices

\* C6: play_turn on an exhausted pyramid raises the "no more cards" error for
\* every combination of arguments, claim or pass, and leaves every player's
\* drinks_taken and revealed set and the pyramid cursor as they were.
Refused(g, r) ==
    /\ r.error = "RuntimeError"
    /\ SamePlayers(g, r.game)
    /\ r.game.pyramid.row = g.pyramid.row
    /\ r.game.pyramid.col = g.pyramid.col

Thm_C6 ==
    (~IsNone(game) /\ Exhausted(Get(game).pyramid)) =>
        \A a \in TurnArgs, target_believes \in BOOLEAN :
            Refused(Get(game), play_turn(Get(game), a[1], a[2], a[3], target_believes))

\* a turn was played on an exhausted pyramid and refused
Wit_C6 ==
    /\ ret.op = "play_turn"
    /\ ret.error = "RuntimeError"
    /\ Exhausted(Get(game).pyramid)
    /\ Len(drawn) = Cells(Len(Get(game).pyramid.rows))

\* C7: every play_turn on a pyramid that is not exhausted moves the cursor on
\* by exactly one cell, claim or not; a turn with the claimer, the target or
\* the index absent returns the drawn card with no outcome and changes no
\* player's drinks_taken, hand or revealed set.
Advanced(g, a, r) ==
    /\ CursorIndex(r.game.pyramid) = CursorIndex(g.pyramid) + 1
    /\ IsPass(a) => /\ r.error = ""
                    /\ r.value = <<NextCell(g.pyramid), None>>
                    /\ SamePlayers(g, r.game)

Thm_C7 ==
    (~IsNone(game) /\ ~Exhausted(Get(game).pyramid)) =>
        \A a \in TurnArgs, target_believes \in BOOLEAN :
            Advanced(Get(game), a, play_turn(Get(game), a[1], a[2], a[3], target_believes))

\* a pass was played: the card came back with no outcome and nobody drank
Wit_C7 ==
    /\ ret.op = "play_turn"
    /\ ret.error = ""
    /\ IsNone(ret.value[2])
    /\ ret.value[1] = drawn[Len(drawn)]
    /\ Work(Get(game)) = 0

\* C5: save_game then load_game gives a Game with the same player names in
\* the same order, the same hands, revealed sets and drink counts, the same
\* pyramid rows and cursor (its next reveal_next_card returns what the
\* original's would), and the same rest stack; nothing of the setup load_game
\* ran first is left in it.
SameGame(g, h) ==
    /\ Len(h.players) = Len(g.players)
    /\ \A p \in 1..Len(g.players) : h.players[p].name = g.players[p].name
    /\ SamePlayers(g, h)
    /\ h.pyramid.rows = g.pyramid.rows
    /\ h.pyramid.row = g.pyramid.row
    /\ h.pyramid.col = g.pyramid.col
    /\ reveal_next_card(h).card = reveal_next_card(g).card
    /\ h.rest_stapel = g.rest_stapel
    /\ h = g

Thm_C5 ==
    /\ ret.op = "load_game" => ret.error = "" /\ ~IsNone(loaded)
    /\ ~IsNone(loaded) => SameGame(Get(game), Get(loaded))

\* a game was saved and loaded in mid-play, with drinks taken and a card
\* revealed
Wit_C5 ==
    /\ ~IsNone(loaded)
    /\ ret.op = "load_game"
    /\ ~Exhausted(Get(game).pyramid)
    /\ Len(drawn) > 0
    /\ \E p \in Players : Get(loaded).players[p].drinks_taken > 0
    /\ \E p \in Players : Get(loaded).players[p].revealed_indices # {}

\* C9: Player.reveal(index) on a 4-card hand raises for every index outside
\* 0..3, negative ones too, and returns the card at the position for 0..3.
Cex_C9 ==
    [][\A p \in Callers, i \in Indices :
          PlayerReveal(p, i) =>
            IF 0 <= i /\ i <= 3
            THEN ret'.error = "" /\ ret'.value = Some(Get(game).players[p].hand[i + 1])
            ELSE ret'.error # ""]_vars

\* C10: a call of Deck.deal, Player.reveal or Game.play_turn that raises has
\* changed nothing but, for play_turn, the pyramid cursor: the deck, every
\* revealed set and every drinks_taken are as before the call.
FailedCall == ret'.error # "" /\ ret'.op \in {"deal", "reveal", "play_turn"}

Cex_C10 ==
    [][FailedCall =>
          /\ Get(game').deck = Get(game).deck
          /\ SamePlayers(Get(game), Get(game'))
          /\ ret'.op # "play_turn" => Get(game').pyramid = Get(game).pyramid]_vars

\* the drinks_taken of the players, in player order
Drinks(g) == [p \in 1..Len(g.players) |-> g.players[p].drinks_taken]

\* C11: the game goes from setup through play to finished and stays there:
\* once the cursor has passed the last row, no reveal_next_card or play_turn,
\* in any order, returns a card again or moves the cursor, and every player's
\* drinks_taken keeps its final value; before that the cursor never moves
\* back.
Thm_C11 ==
    [][~IsNone(game) =>
          /\ ~IsNone(game')
          /\ CursorIndex(Get(game').pyramid) >= CursorIndex(Get(game).pyramid)
          /\ Exhausted(Get(game).pyramid) =>
                /\ Exhausted(Get(game').pyramid)
                /\ Get(game').pyramid = Get(game).pyramid
                /\ drawn' = drawn
                /\ IsNone(ret'.value)
                /\ Drinks(Get(game')) = Drinks(Get(game))]_vars

\* a finished game with drinks taken was asked for a card and gave none
Wit_C11 ==
    /\ ret.op = "reveal_next_card"
    /\ IsNone(ret.value)
    /\ Exhausted(Get(game).pyramid)
    /\ \E p \in Players : Get(game).players[p].drinks_taken > 0

\* C12: in a session of run(), whatever the user types, play_turn is called
\* with two players that are found and differ and with a card index in 0..3.
Cex_C12 ==
    ~IsNone(cli.turn) =>
        /\ Get(cli.turn)[1] \in Players
        /\ Get(cli.turn)[2] \in Players
        /\ Get(cli.turn)[1] # Get(cli.turn)[2]
        /\ Get(cli.turn)[3] \in 0..3

\* C13: in a session of run() the loop ends through the none of
\* reveal_next_card only: whatever the user types, a play_turn the loop issues
\* does not raise the "no more cards" RuntimeError.
Cex_C13 ==
    /\ ~IsNone(cli.turn) => ret.error # "RuntimeError"
    /\ cli.pc = "done" => ret.op = "reveal_next_card" /\ IsNone(ret.value)

\* C19: in a session of run() the pyramid card play_turn resolves a claim
\* against is the card the loop printed at the start of the iteration, and
\* the iteration takes that one card from the pyramid.
Cex_C19 ==
    (~IsNone(cli.turn) /\ ret.error = "") =>
        /\ ret.value[1] = Get(cli.card)
        /\ drawn[Len(drawn)] = Get(cli.card)

\* the flat list Game.__init__ passes to Pyramid(): the cards of the deck
\* after the hands, random.shuffle having left the k-th order
PyramidCards(g, k) ==
    Slice(shuffle(Deck_cards, k), 4 * Len(g.players),
          4 * Len(g.players) + Cells(Len(g.pyramid.rows)))

\* cursor (row, col) before cursor (row2, col2), lexicographically
CursorBefore(p, q) == p.row < q.row \/ (p.row = q.row /\ p.col < q.col)

\* C14: over any interleaving of reveal_next_card and play_turn the k-th card
\* handed out is the k-th card of the flat list the pyramid was built from,
\* which is the rows read bottom row first and left to right, each cell once;
\* every card handed out moves the cursor on lexicographically.
Thm_C14 ==
    /\ [](~IsNone(game) =>
            /\ Len(drawn) = CursorIndex(Get(game).pyramid)
            /\ drawn = SubSeq(Flatten(Get(game).pyramid.rows), 1, Len(drawn))
            /\ \E k \in Shuffles :
                  drawn = SubSeq(PyramidCards(Get(game), k), 1, Len(drawn))
            /\ \A i \in 1..Len(drawn), j \in 1..Len(drawn) : drawn[i] = drawn[j] => i = j)
    /\ [][(~IsNone(game) /\ drawn' # drawn) =>
            /\ drawn' = Append(drawn, NextCell(Get(game).pyramid))
            /\ CursorBefore(Get(game).pyramid, Get(game').pyramid)]_vars

\* a play_turn handed out the last card of a pyramid of three rows or more
Wit_C14 ==
    /\ ret.op = "play_turn"
    /\ ret.error = ""
    /\ Exhausted(Get(game).pyramid)
    /\ Len(Get(game).pyramid.rows) >= 3
    /\ Len(drawn) = Cells(Len(Get(game).pyramid.rows))
    /\ ret.value[1] = drawn[Len(drawn)]

\* R rows of sizes R, R - 1, ..., 1 and a cursor on a cell or just past the
\* last row
PyramidShape(p) ==
    /\ \A r \in 1..Len(p.rows) : Len(p.rows[r]) = Len(p.rows) - r + 1
    /\ \/ /\ 0 <= p.row /\ p.row < Len(p.rows)
          /\ 0 <= p.col /\ p.col < Len(p.rows[p.row + 1])
       \/ /\ p.row = Len(p.rows)
          /\ p.col = 0

\* C15: in every reachable state of a constructed Game the pyramid has R rows
\* of sizes R, R - 1, ..., 1, bottom row first, and the cursor is a cell
\* (row < R, col < the size of that row) or the exhausted position (R, 0), so
\* next_card indexes inside a row.
Thm_C15 == ~IsNone(game) => PyramidShape(Get(game).pyramid)

\* the last card of a pyramid of four rows was just handed out by
\* reveal_next_card and the cursor stands on (4, 0)
Wit_C15 ==
    /\ ret.op = "reveal_next_card"
    /\ ~IsNone(ret.value)
    /\ Len(Get(game).pyramid.rows) = 4
    /\ Get(game).pyramid.row = 4
    /\ Get(game).pyramid.col = 0

\* the hands in player order, then the pyramid rows bottom row first, then
\* the rest stack
AllCards(g) ==
    Flatten([p \in 1..Len(g.players) |-> g.players[p].hand])
        \o Flatten(g.pyramid.rows) \o g.rest_stapel

Conserved(g, cards) ==
    /\ g.deck = << >>
    /\ Len(cards) = 52
    /\ ListToSet(cards) = {Card(r, s) : r \in ListToSet(ranks), s \in ListToSet(suits)}
    /\ Cardinality(ListToSet(cards)) = 52
    /\ \A p \in 1..Len(g.players) : Len(g.players[p].hand) = 4
    /\ \E k \in Shuffles : cards = shuffle(Deck_cards, k)

\* C16: after the construction of a Game and after any sequence of turns the
\* deck is empty and the hands, the pyramid rows and the rest stack hold each
\* of the 52 (rank, suit) pairs exactly once between them; read as hands of 4
\* in player order, then pyramid, then rest stack, they are the shuffled deck
\* from its top.
Thm_C16 == ~IsNone(game) => Conserved(Get(game), AllCards(Get(game)))

\* turns were played, a claim among them, in a game of 10 players, whose
\* pyramid holds 10 cards and whose rest stack holds 2
Wit_C16 ==
    /\ ret.op = "play_turn"
    /\ ret.error = ""
    /\ Len(drawn) >= 2
    /\ Len(Get(game).players) = 10
    /\ Len(Flatten(Get(game).pyramid.rows)) = 10
    /\ Len(Get(game).rest_stapel) = 2
    /\ Work(Get(game)) > 0

\* the drinks taken by the first i players together
RECURSIVE DrinksOf(_, _)
DrinksOf(players, i) ==
    IF i = 0 THEN 0 ELSE players[i].drinks_taken + DrinksOf(players, i - 1)

TotalDrinks(g) == DrinksOf(g.players, Len(g.players))

\* the players that differ between games g and h
Changed(g, h) == {p \in 1..Len(g.players) : h.players[p] # g.players[p]}

\* what the players in S have more drinks in h than in g, together
RECURSIVE MoreDrinks(_, _, _)
MoreDrinks(g, h, S) ==
    IF S = {} THEN 0
    ELSE LET p == CHOOSE q \in S : TRUE
         IN  h.players[p].drinks_taken - g.players[p].drinks_taken
                 + MoreDrinks(g, h, S \ {p})

\* what a turn with arguments a adds to the drinks of all players: nothing
\* when it raised or passed, 1 when believed, 2 when challenged
TurnCharge(a, target_believes, r) ==
    IF r.error # "" \/ IsPass(a) THEN 0 ELSE IF target_believes THEN 1 ELSE 2

\* turn r on game g lowered nobody's drinks and added what its kind adds
Charge(g, a, target_believes, r, changed) ==
    /\ Len(r.game.players) = Len(g.players)
    /\ \A p \in changed : r.game.players[p].drinks_taken >= g.players[p].drinks_taken
    /\ MoreDrinks(g, r.game, changed) = TurnCharge(a, target_believes, r)

Charged_turn(g, a, target_believes, r) ==
    Charge(g, a, target_believes, r, Changed(g, r.game))

\* C17: every player's drinks_taken is a non-negative integer that no
\* play_turn and no reveal_next_card lowers; one play_turn adds 0 (pass), 1
\* (believed claim) or 2 (challenge) to the sum over the players, so that the
\* sum is at most twice the number of cards the turns have drawn.
Thm_C17 ==
    ~IsNone(game) =>
        /\ \A p \in Players : Get(game).players[p].drinks_taken \in Nat
        /\ TotalDrinks(Get(game)) <= 2 * Len(drawn)
        /\ Drinks(reveal_next_card(Get(game)).game) = Drinks(Get(game))
        /\ \A a \in TurnArgs, target_believes \in BOOLEAN :
              Charged_turn(Get(game), a, target_believes,
                           play_turn(Get(game), a[1], a[2], a[3], target_believes))

\* a believed claim and a challenge were played: three drinks in two turns
Wit_C17 ==
    /\ ret.op = "play_turn"
    /\ ~IsNone(game)
    /\ TotalDrinks(Get(game)) = 3
    /\ Len(drawn) = 2

RevealedGrows(g, a, target_believes, r) ==
    \A p \in 1..Len(g.players) :
        /\ g.players[p].revealed_indices \subseteq r.game.players[p].revealed_indices
        /\ (target_believes \/ IsPass(a)) =>
              r.game.players[p].revealed_indices = g.players[p].revealed_indices

\* C18: in every reachable state each player's revealed set holds indices
\* into the hand only, a subset of {0, 1, 2, 3}, whatever integer chosen_index
\* the turns were called with and whether they returned or raised; a turn
\* only adds to the set, and only a challenge (target_believes = False) does.
Cex_C18 ==
    ~IsNone(game) =>
        /\ \A p \in Players : Get(game).players[p].revealed_indices \subseteq 0..3
        /\ \A a \in TurnArgs, target_believes \in BOOLEAN :
              RevealedGrows(Get(game), a, target_believes,
                            play_turn(Get(game), a[1], a[2], a[3], target_believes))

\* the players a turn with arguments a was called with
Touched(a) == IF IsPass(a) THEN {} ELSE {Get(a[1]), Get(a[2])}

Claimer(a) == IF IsPass(a) THEN {} ELSE {Get(a[1])}

\* game h is game g but for the cursor, the drinks_taken of the players in
\* touched and the revealed sets of those in claimer
Framed(g, h, touched, claimer) ==
    /\ h.pyramid.rows = g.pyramid.rows
    /\ h.rest_stapel = g.rest_stapel
    /\ h.deck = g.deck
    /\ Len(h.players) = Len(g.players)
    /\ [p \in 1..Len(g.players) |-> IF p \in touched THEN g.players[p] ELSE h.players[p]]
          = g.players
    /\ \A p \in touched :
          /\ h.players[p].name = g.players[p].name
          /\ h.players[p].hand = g.players[p].hand
          /\ p \notin claimer =>
                h.players[p].revealed_indices = g.players[p].revealed_indices

\* C20: play_turn changes the pyramid cursor, the drinks_taken of the claimer
\* or the target and the claimer's revealed set, and nothing else: the other
\* players' drinks_taken and revealed sets, every hand, the pyramid rows and
\* the rest stack are as before the turn, and no call draws from the rest
\* stack.
Thm_C20 ==
    ~IsNone(game) =>
        /\ reveal_next_card(Get(game)).game.rest_stapel = Get(game).rest_stapel
        /\ \A a \in TurnArgs, target_believes \in BOOLEAN :
              Framed(Get(game),
                     play_turn(Get(game), a[1], a[2], a[3], target_believes).game,
                     Touched(a), Claimer(a))

\* a bluff was caught: the claimer has two drinks and a revealed index, and
\* no other player has either
Wit_C20 ==
    /\ ret.op = "play_turn"
    /\ ret.error = ""
    /\ \E c \in Players :
          /\ ret.value[2] = Some(<<Get(game).players[c].name, " drinkt ", 2>>)
          /\ Get(game).players[c].drinks_taken = 2
          /\ Get(game).players[c].revealed_indices # {}
          /\ \A p \in Players \ {c} :
                /\ Get(game).players[p].drinks_taken = 0
                /\ Get(game).players[p].revealed_indices = {}

====
